---- MODULE Spec2Model ----
(***************************************************************************)
(* Model of core/config/cli_auth.go: the CLIAuthProvider interface, the    *)
(* WithCLIProviderAuth configuration option (interface variant and the     *)
(* zero-argument variant that calls the CLI package directly) and the      *)
(* AuthenticationError type.                                               *)
(*                                                                         *)
(* Strings are modelled as non-empty sequences of space-free words (the    *)
(* string split at every single space), which is a bijection, so that      *)
(* concatenation and containment are computed and not assumed.             *)
(* References (transports, error values) are modelled as numbered refs.    *)
(***************************************************************************)
EXTENDS Naturals, Sequences, FiniteSets, TLC

VARIABLES
    opt,              \* the ConfigurationOption closure the caller holds
    pc,               \* position of the current application of the option
    c,                \* the *Configuration the option is applied to
    authFlow,         \* local variable authFlow of the closure
    ret,              \* value returned by the last application
    steps,            \* calls made by the current application, in order
    isAuth,           \* answer IsAuthenticated gave in this application
    got,              \* result GetAuthFlow gave in this application
    writes,           \* writes to c.CustomAuth in the current application
    prev,             \* summary of the previous completed application
    cliAuthenticated, \* external CLI credential store: credentials present
    cliCalls,         \* CLI package functions this package called directly
    config,           \* the consumer's ProviderConfig
    source,           \* authentication source the consumer's setup chose
    client            \* outcome of the consumer's NewAPIClient call

vars == <<opt, pc, c, authFlow, ret, steps, isAuth, got, writes, prev,
          cliAuthenticated, cliCalls, config, source, client>>

\* the state of the documented consumer (provider configuration)
consumer == <<config, source, client>>

-----------------------------------------------------------------------------
(* Bounds *)

MaxTransports == 2
MaxErrs == 2

-----------------------------------------------------------------------------
(* Strings as word sequences *)

Concat(a, b) ==
    SubSeq(a, 1, Len(a) - 1) \o <<a[Len(a)] \o b[1]>> \o SubSeq(b, 2, Len(b))

\* sub occurs in s as a run of whole words
Contains(s, sub) ==
    \E i \in 1..Len(s) :
        /\ i + Len(sub) - 1 <= Len(s)
        /\ SubSeq(s, i, i + Len(sub) - 1) = sub

-----------------------------------------------------------------------------
(* Values *)

NilRT == 0
Transports == 1..MaxTransports

NilErr == [kind |-> "nil"]
NoRet == [kind |-> "none"]

ErrTexts == << <<"keyring", "locked">>, <<"">> >>

\* errors an external GetAuthFlow can return; refs 1..MaxErrs share one text
ExtErrors ==
    {[kind |-> "errorString", ref |-> r, text |-> ErrTexts[1]] : r \in 1..MaxErrs}
        \cup {[kind |-> "errorString", ref |-> MaxErrs + 1, text |-> ErrTexts[2]]}

\* results of GetAuthFlow() (http.RoundTripper, error)
FlowResults == [rt : Transports \cup {NilRT}, err : ExtErrors \cup {NilErr}]

\* provider values a caller can pass: the nil interface, an interface holding
\* a nil pointer (deref: which method dereferences its receiver), a pointer
Providers ==
    {[form |-> "nil", deref |-> "none"], [form |-> "ptr", deref |-> "none"]}
        \cup {[form |-> "typednil", deref |-> d] :
                d \in {"none", "GetAuthFlow", "IsAuthenticated"}}

NoResult == [rt |-> NilRT, err |-> NoRet]

\* ProviderConfig with no credentials and cli_auth off
NoConfig == [ServiceAccountToken |-> "", ServiceAccountKeyPath |-> "", CLIAuth |-> FALSE]

NoOption == [variant |-> "none", provider |-> [form |-> "nil", deref |-> "none"]]
NoPrev == [variant |-> "none", provider |-> [form |-> "nil", deref |-> "none"],
           ret |-> NoRet, isAuth |-> "unasked", got |-> NoResult,
           custom |-> NilRT]

-----------------------------------------------------------------------------
(* AuthenticationError *)

MsgNilProvider == <<"CLI", "auth", "provider", "cannot", "be", "nil">>
MsgNotAuthenticated ==
    <<"not", "authenticated", "with", "CLI", "provider", "credentials:",
      "please", "run", "authentication", "command", "(e.g.,", "'stackit",
      "auth", "provider", "login')">>
MsgInitFailed ==
    <<"failed", "to", "initialize", "CLI", "provider", "authentication">>
MsgNotAuthenticatedCLI ==
    <<"not", "authenticated", "with", "STACKIT", "CLI", "provider",
      "credentials:", "please", "run", "'stackit", "auth", "provider",
      "login'">>

AuthenticationError(msg, cause) ==
    [kind |-> "AuthenticationError", msg |-> msg, cause |-> cause]

\* faulty variant: Unwrap never gives the cause
UnwrapNone(e) == NilErr

Unwrap(e) == e.cause

\* faulty variant: the cause is left out of the text
ErrorTextMsgOnly(e) ==
    IF e.kind = "AuthenticationError" THEN e.msg ELSE e.text

ErrorText(e) ==
    IF e.kind = "AuthenticationError"
    THEN IF e.cause # NilErr
         THEN Concat(Concat(e.msg, <<":", "">>), e.cause.text)
         ELSE e.msg
    ELSE e.text

-----------------------------------------------------------------------------
(* Pieces of the option's closure *)

\* provider == nil: true only of the nil interface value
IsNilInterface(provider) == provider.form = "nil"

\* a method called through an interface holding a nil pointer panics when
\* the method dereferences its receiver
Panics(provider, method) ==
    provider.form = "typednil" /\ provider.deref = method

AfterNilCheck(provider) ==
    IF IsNilInterface(provider)
    THEN [pc |-> "returned", ret |-> AuthenticationError(MsgNilProvider, NilErr)]
    ELSE [pc |-> "isauth", ret |-> NoRet]

\* faulty variant: the answer of IsAuthenticated() is ignored
AfterIsAuthenticatedIgnored(ok) == [pc |-> "getflow", ret |-> NoRet]

\* faulty variant: the failure is reported with fmt.Errorf instead of the error type
AfterIsAuthenticatedPlain(ok) ==
    IF ~ok
    THEN [pc |-> "returned",
          ret |-> [kind |-> "errorString", ref |-> 0, text |-> MsgNotAuthenticated]]
    ELSE [pc |-> "getflow", ret |-> NoRet]

AfterIsAuthenticated(ok) ==
    IF ~ok
    THEN [pc |-> "returned",
          ret |-> AuthenticationError(MsgNotAuthenticated, NilErr)]
    ELSE [pc |-> "getflow", ret |-> NoRet]

\* faulty variant: the cause is a new error made from the text of err
AfterGetAuthFlowCopied(r) ==
    IF r.err # NilErr
    THEN [pc |-> "returned",
          ret |-> AuthenticationError(MsgInitFailed, [r.err EXCEPT !.ref = 0])]
    ELSE [pc |-> "install", ret |-> NoRet]

\* faulty variant: a failed GetAuthFlow() is tried again
AfterGetAuthFlowRetry(r) ==
    IF r.err # NilErr
    THEN [pc |-> "getflow", ret |-> NoRet]
    ELSE [pc |-> "install", ret |-> NoRet]

AfterGetAuthFlow(r) ==
    IF r.err # NilErr
    THEN [pc |-> "returned", ret |-> AuthenticationError(MsgInitFailed, r.err)]
    ELSE [pc |-> "install", ret |-> NoRet]

\* WithCustomAuth(rt)(cfg): installs rt as the configuration's transport
WithCustomAuth(rt, cfg) ==
    [c |-> [cfg EXCEPT !.CustomAuth = rt], err |-> NilErr]

\* faulty variant: a transport already configured is kept
InstallStepIfUnset(rt, cfg) ==
    IF cfg.CustomAuth = NilRT
    THEN WithCustomAuth(rt, cfg)
    ELSE [c |-> cfg, err |-> NilErr]

\* faulty variant: the option built by WithCustomAuth is never applied
InstallStepDropped(rt, cfg) == [c |-> cfg, err |-> NilErr]

\* return WithCustomAuth(authFlow)(c)
InstallStep(rt, cfg) == WithCustomAuth(rt, cfg)

\* faulty variant: the zero-argument option ignores the CLI's answer
AfterCLIIsAuthenticatedIgnored(ok) == [pc |-> "getflow", ret |-> NoRet]

AfterCLIIsAuthenticated(ok) ==
    IF ~ok
    THEN [pc |-> "returned",
          ret |-> AuthenticationError(MsgNotAuthenticatedCLI, NilErr)]
    ELSE [pc |-> "getflow", ret |-> NoRet]

-----------------------------------------------------------------------------
(* State machine *)

Init ==
    /\ opt = NoOption
    /\ pc = "ready"
    /\ c = [CustomAuth |-> NilRT]
    /\ authFlow = NilRT
    /\ ret = NoRet
    /\ steps = <<>>
    /\ isAuth = "unasked"
    /\ got = NoResult
    /\ writes = 0
    /\ prev = NoPrev
    /\ cliAuthenticated = FALSE
    /\ cliCalls = {}
    /\ config = NoConfig
    /\ source = "unset"
    /\ client = "none"

\* `stackit auth provider login` run outside the program
Login ==
    /\ UNCHANGED consumer
    /\ cliAuthenticated' = TRUE
    /\ UNCHANGED <<opt, pc, c, authFlow, ret, steps, isAuth, got, writes, prev, cliCalls>>

\* `stackit auth provider logout` run outside the program
Logout ==
    /\ UNCHANGED consumer
    /\ cliAuthenticated' = FALSE
    /\ UNCHANGED <<opt, pc, c, authFlow, ret, steps, isAuth, got, writes, prev, cliCalls>>

\* faulty variant: the provider is asked when the option is built
WithCLIProviderAuthEager(provider) ==
    /\ UNCHANGED consumer
    /\ pc = "ready"
    /\ opt' = [variant |-> "iface", provider |-> provider]
    /\ isAuth' = IF IsNilInterface(provider) \/ Panics(provider, "IsAuthenticated")
                 THEN isAuth
                 ELSE IF cliAuthenticated THEN "true" ELSE "false"
    /\ UNCHANGED <<pc, c, authFlow, ret, steps, got, writes, prev,
                   cliAuthenticated, cliCalls>>

\* WithCLIProviderAuth(provider): builds the closure, nothing else
WithCLIProviderAuth(provider) ==
    /\ UNCHANGED consumer
    /\ pc = "ready"
    /\ opt' = [variant |-> "iface", provider |-> provider]
    /\ UNCHANGED <<pc, c, authFlow, ret, steps, isAuth, got, writes, prev,
                   cliAuthenticated, cliCalls>>

\* the zero-argument WithCLIProviderAuth()
WithCLIProviderAuthCLI ==
    /\ UNCHANGED consumer
    /\ pc = "ready"
    /\ opt' = [variant |-> "cli", provider |-> NoOption.provider]
    /\ UNCHANGED <<pc, c, authFlow, ret, steps, isAuth, got, writes, prev,
                   cliAuthenticated, cliCalls>>

\* IsCLIProviderAuthenticated(): asks the CLI package directly
IsCLIProviderAuthenticated ==
    /\ UNCHANGED consumer
    /\ pc = "ready"
    /\ cliCalls' = cliCalls \cup {"IsProviderAuthenticated"}
    /\ UNCHANGED <<opt, pc, c, authFlow, ret, steps, isAuth, got, writes, prev,
                   cliAuthenticated>>

\* faulty variant: the configuration's transport is cleared on entry
ApplyNilCheckReset ==
    /\ UNCHANGED consumer
    /\ pc = "ready"
    /\ opt.variant = "iface"
    /\ LET n == AfterNilCheck(opt.provider) IN
        /\ pc' = n.pc
        /\ ret' = n.ret
    /\ steps' = <<"nilcheck">>
    /\ c' = [c EXCEPT !.CustomAuth = NilRT]
    /\ UNCHANGED <<opt, authFlow, isAuth, got, writes, prev, cliAuthenticated, cliCalls>>

\* opt(c) is entered: if provider == nil { return &AuthenticationError{...} }
ApplyNilCheck ==
    /\ UNCHANGED consumer
    /\ pc = "ready"
    /\ opt.variant = "iface"
    /\ LET n == AfterNilCheck(opt.provider) IN
        /\ pc' = n.pc
        /\ ret' = n.ret
    /\ steps' = <<"nilcheck">>
    /\ UNCHANGED <<opt, c, authFlow, isAuth, got, writes, prev, cliAuthenticated, cliCalls>>

\* if !provider.IsAuthenticated() { return &AuthenticationError{...} }
ApplyIsAuthenticated ==
    /\ UNCHANGED consumer
    /\ pc = "isauth"
    /\ opt.variant = "iface"
    /\ steps' = Append(steps, "provider.IsAuthenticated")
    /\ IF Panics(opt.provider, "IsAuthenticated")
       THEN pc' = "panicked" /\ UNCHANGED <<ret, isAuth>>
       ELSE LET n == AfterIsAuthenticated(cliAuthenticated) IN
               /\ isAuth' = IF cliAuthenticated THEN "true" ELSE "false"
               /\ pc' = n.pc
               /\ ret' = n.ret
    /\ UNCHANGED <<opt, c, authFlow, got, writes, prev, cliAuthenticated, cliCalls>>

\* faulty variant: the transport is stored in the configuration before err is checked
ApplyGetAuthFlowEager ==
    /\ UNCHANGED consumer
    /\ pc = "getflow"
    /\ opt.variant = "iface"
    /\ steps' = Append(steps, "provider.GetAuthFlow")
    /\ IF Panics(opt.provider, "GetAuthFlow")
       THEN pc' = "panicked" /\ UNCHANGED <<ret, authFlow, got, c>>
       ELSE \E r \in FlowResults :
               LET n == AfterGetAuthFlow(r) IN
                   /\ pc' = n.pc
                   /\ ret' = n.ret
                   /\ authFlow' = r.rt
                   /\ got' = r
                   /\ c' = [c EXCEPT !.CustomAuth = r.rt]
    /\ UNCHANGED <<opt, isAuth, writes, prev, cliAuthenticated, cliCalls>>

\* authFlow, err := provider.GetAuthFlow(); if err != nil { return ... }
ApplyGetAuthFlow ==
    /\ UNCHANGED consumer
    /\ pc = "getflow"
    /\ opt.variant = "iface"
    /\ steps' = Append(steps, "provider.GetAuthFlow")
    /\ IF Panics(opt.provider, "GetAuthFlow")
       THEN pc' = "panicked" /\ UNCHANGED <<ret, authFlow, got>>
       ELSE \E r \in FlowResults :
               LET n == AfterGetAuthFlow(r) IN
                   /\ pc' = n.pc
                   /\ ret' = n.ret
                   /\ authFlow' = r.rt
                   /\ got' = r
    /\ UNCHANGED <<opt, c, isAuth, writes, prev, cliAuthenticated, cliCalls>>

\* return WithCustomAuth(authFlow)(c)
ApplyInstall ==
    /\ UNCHANGED consumer
    /\ pc = "install"
    /\ opt.variant = "iface"
    /\ steps' = Append(steps, "WithCustomAuth")
    /\ LET res == InstallStep(authFlow, c) IN
        /\ c' = res.c
        /\ ret' = res.err
    /\ writes' = writes + 1
    /\ pc' = "returned"
    /\ UNCHANGED <<opt, authFlow, isAuth, got, prev, cliAuthenticated, cliCalls>>

\* zero-argument variant: if !cliAuth.IsProviderAuthenticated() { return ... }
ApplyCLIIsAuthenticated ==
    /\ UNCHANGED consumer
    /\ pc = "ready"
    /\ opt.variant = "cli"
    /\ steps' = <<"cliAuth.IsProviderAuthenticated">>
    /\ cliCalls' = cliCalls \cup {"IsProviderAuthenticated"}
    /\ isAuth' = IF cliAuthenticated THEN "true" ELSE "false"
    /\ LET n == AfterCLIIsAuthenticated(cliAuthenticated) IN
        /\ pc' = n.pc
        /\ ret' = n.ret
    /\ UNCHANGED <<opt, c, authFlow, got, writes, prev, cliAuthenticated>>

\* zero-argument variant: authFlow, err := cliAuth.ProviderAuthFlow(nil)
ApplyCLIGetAuthFlow ==
    /\ UNCHANGED consumer
    /\ pc = "getflow"
    /\ opt.variant = "cli"
    /\ steps' = Append(steps, "cliAuth.ProviderAuthFlow")
    /\ cliCalls' = cliCalls \cup {"ProviderAuthFlow"}
    /\ \E r \in FlowResults :
           LET n == AfterGetAuthFlow(r) IN
               /\ pc' = n.pc
               /\ ret' = n.ret
               /\ authFlow' = r.rt
               /\ got' = r
    /\ UNCHANGED <<opt, c, isAuth, writes, prev, cliAuthenticated>>

\* zero-argument variant: return WithCustomAuth(authFlow)(c)
ApplyCLIInstall ==
    /\ UNCHANGED consumer
    /\ pc = "install"
    /\ opt.variant = "cli"
    /\ steps' = Append(steps, "WithCustomAuth")
    /\ LET res == InstallStep(authFlow, c) IN
        /\ c' = res.c
        /\ ret' = res.err
    /\ writes' = writes + 1
    /\ pc' = "returned"
    /\ UNCHANGED <<opt, authFlow, isAuth, got, prev, cliAuthenticated, cliCalls>>

\* the caller has the result; the closure's locals are gone and the option
\* can be applied again
Return ==
    /\ UNCHANGED consumer
    /\ pc = "returned"
    /\ prev' = [variant |-> opt.variant, provider |-> opt.provider,
                ret |-> ret, isAuth |-> isAuth, got |-> got,
                custom |-> c.CustomAuth]
    /\ pc' = "ready"
    /\ ret' = NoRet
    /\ steps' = <<>>
    /\ authFlow' = NilRT
    /\ isAuth' = "unasked"
    /\ got' = NoResult
    /\ writes' = 0
    /\ UNCHANGED <<opt, c, cliAuthenticated, cliCalls>>

Next ==
    \/ Login
    \/ Logout
    \/ \E provider \in Providers : WithCLIProviderAuth(provider)
    \/ WithCLIProviderAuthCLI
    \/ IsCLIProviderAuthenticated
    \/ ApplyNilCheck
    \/ ApplyIsAuthenticated
    \/ ApplyGetAuthFlow
    \/ ApplyInstall
    \/ ApplyCLIIsAuthenticated
    \/ ApplyCLIGetAuthFlow
    \/ ApplyCLIInstall
    \/ Return

Spec == Init /\ [][Next]_vars

TypeOK ==
    /\ pc \in {"ready", "isauth", "getflow", "install", "returned", "panicked"}
    /\ c.CustomAuth \in Transports \cup {NilRT}
    /\ writes \in 0..1
    /\ cliAuthenticated \in BOOLEAN

-----------------------------------------------------------------------------
(* The documented consumer: ConfigureClient / setupAuth *)

ProviderConfigs ==
    [ServiceAccountToken : {"", "explicit-token"},
     ServiceAccountKeyPath : {"", "sa-key.json"},
     CLIAuth : BOOLEAN]

\* adapter := &CLIAuthAdapter{}
Adapter == [form |-> "ptr", deref |-> "none"]

OtherOption(kind) == [variant |-> kind, provider |-> NoOption.provider]

\* faulty variant: cli_auth is looked at before the explicit credentials
setupAuthCLIFirst(cfg, authenticated) ==
    IF cfg.CLIAuth
    THEN IF ~authenticated
         THEN [source |-> "error", opt |-> NoOption]
         ELSE [source |-> "cli", opt |-> [variant |-> "iface", provider |-> Adapter]]
    ELSE IF cfg.ServiceAccountToken # ""
    THEN [source |-> "token", opt |-> OtherOption("token")]
    ELSE IF cfg.ServiceAccountKeyPath # ""
    THEN [source |-> "key", opt |-> OtherOption("key")]
    ELSE [source |-> "default", opt |-> NoOption]

\* the option the consumer chooses; authenticated is the answer of
\* adapter.IsAuthenticated(), asked only in the cli_auth branch
setupAuth(cfg, authenticated) ==
    IF cfg.ServiceAccountToken # ""
    THEN [source |-> "token", opt |-> OtherOption("token")]
    ELSE IF cfg.ServiceAccountKeyPath # ""
    THEN [source |-> "key", opt |-> OtherOption("key")]
    ELSE IF cfg.CLIAuth
    THEN IF ~authenticated
         THEN [source |-> "error", opt |-> NoOption]
         ELSE [source |-> "cli", opt |-> [variant |-> "iface", provider |-> Adapter]]
    ELSE [source |-> "default", opt |-> NoOption]

InitConsumer ==
    /\ opt = NoOption
    /\ pc = "ready"
    /\ c = [CustomAuth |-> NilRT]
    /\ authFlow = NilRT
    /\ ret = NoRet
    /\ steps = <<>>
    /\ isAuth = "unasked"
    /\ got = NoResult
    /\ writes = 0
    /\ prev = NoPrev
    /\ cliAuthenticated = FALSE
    /\ cliCalls = {}
    /\ config \in ProviderConfigs
    /\ source = "unset"
    /\ client = "none"

\* the authentication part of ConfigureClient
SetupAuth ==
    /\ source = "unset"
    /\ pc = "ready"
    /\ LET r == setupAuth(config, cliAuthenticated) IN
        /\ source' = r.source
        /\ opt' = r.opt
    /\ UNCHANGED <<pc, c, authFlow, ret, steps, isAuth, got, writes, prev,
                   cliAuthenticated, cliCalls, config, client>>

\* client, err := dns.NewAPIClient(authOption), the CLI option having run
ClientResult ==
    /\ source = "cli"
    /\ client = "none"
    /\ pc = "returned"
    /\ client' = IF ret = NilErr THEN "created" ELSE "failed"
    /\ UNCHANGED <<opt, pc, c, authFlow, ret, steps, isAuth, got, writes, prev,
                   cliAuthenticated, cliCalls, config, source>>

\* client, err := dns.NewAPIClient(authOption) with another option or none
NewAPIClientOther ==
    /\ source \in {"token", "key", "default"}
    /\ client = "none"
    /\ \E r \in {"created", "failed"} : client' = r
    /\ UNCHANGED <<opt, pc, c, authFlow, ret, steps, isAuth, got, writes, prev,
                   cliAuthenticated, cliCalls, config, source>>

NextConsumer ==
    \/ Login
    \/ Logout
    \/ SetupAuth
    \/ ApplyNilCheck
    \/ ApplyIsAuthenticated
    \/ ApplyGetAuthFlow
    \/ ApplyInstall
    \/ ClientResult
    \/ NewAPIClientOther

SpecConsumer == InitConsumer /\ [][NextConsumer]_vars

-----------------------------------------------------------------------------
(* Properties *)

Applying == opt.variant = "iface" /\ pc # "ready"
Returned == opt.variant = "iface" /\ pc = "returned"
Called(step) == \E i \in 1..Len(steps) : steps[i] = step

\* the caller supplied no provider: a nil interface or a nil pointer
Absent(provider) == provider.form \in {"nil", "typednil"}

\* C1: once the option is applied with an absent provider, in whatever form
\* the caller passed it, the application has failed with the
\* AuthenticationError whose message contains "auth provider cannot be nil".
C1_AbsentProviderFails ==
    (Applying /\ Absent(opt.provider)) =>
        /\ pc = "returned"
        /\ ret.kind = "AuthenticationError"
        /\ Contains(ret.msg, <<"auth", "provider", "cannot", "be", "nil">>)

\* C2: when IsAuthenticated() answered false, the application has returned
\* the not-authenticated AuthenticationError, whose message tells the caller
\* to run the login command, and GetAuthFlow() was not called.
C2_NotAuthenticatedFails ==
    (Applying /\ isAuth = "false") =>
        /\ pc = "returned"
        /\ ret = AuthenticationError(MsgNotAuthenticated, NilErr)
        /\ Contains(ret.msg, <<"please", "run", "authentication", "command">>)
        /\ Contains(ret.msg, <<"auth", "provider", "login')">>)
        /\ ~Called("provider.GetAuthFlow")
        /\ got = NoResult

C2_Witness ==
    /\ Returned
    /\ isAuth = "false"
    /\ opt.provider.form = "ptr"
    /\ steps = <<"nilcheck", "provider.IsAuthenticated">>

\* C3: when IsAuthenticated() answered true and GetAuthFlow() returned a
\* transport and no error, the returned application gave no error and the
\* configuration's CustomAuth is the transport GetAuthFlow() returned.
C3_TransportInstalled ==
    (Returned /\ isAuth = "true" /\ got # NoResult /\ got.err = NilErr) =>
        /\ ret = NilErr
        /\ c.CustomAuth = got.rt

\* the field held another transport before this application
C3_Witness ==
    /\ Returned
    /\ isAuth = "true"
    /\ got # NoResult /\ got.err = NilErr
    /\ got.rt \in Transports
    /\ prev.custom \in Transports
    /\ prev.custom # got.rt
    /\ c.CustomAuth = got.rt

\* C4: when IsAuthenticated() answered true and GetAuthFlow() returned the
\* error e, the application returned an AuthenticationError whose Unwrap()
\* is e itself (same reference, same text).
C4_CauseIsExactError ==
    (Returned /\ isAuth = "true" /\ got # NoResult /\ got.err # NilErr) =>
        /\ ret.kind = "AuthenticationError"
        /\ Unwrap(ret) = got.err
        /\ Unwrap(ret).ref = got.err.ref

\* another error value with the same text exists, so a copy would be told apart
C4_Witness ==
    /\ Returned
    /\ isAuth = "true"
    /\ got # NoResult /\ got.err # NilErr
    /\ ret.kind = "AuthenticationError"
    /\ \E e \in ExtErrors : e.text = Unwrap(ret).text /\ e.ref # Unwrap(ret).ref

\* two successful applications in a row with the same provider
TwiceSuccessful ==
    /\ Returned
    /\ ret = NilErr
    /\ prev.variant = "iface"
    /\ prev.provider = opt.provider
    /\ prev.ret = NilErr

\* C5 as stated: after the second of two successful applications with the
\* same provider the configuration holds the same transport reference as
\* after the first.
C5_SameTransportBothTimes ==
    TwiceSuccessful => c.CustomAuth = prev.custom

\* C5 amended: after each of two successful applications with the same
\* provider the configuration holds the transport that application's
\* GetAuthFlow() returned; the reference after the second equals that after
\* the first exactly when GetAuthFlow() returned the same transport twice.
C5_LatestTransportHeld ==
    TwiceSuccessful =>
        /\ prev.custom = prev.got.rt
        /\ c.CustomAuth = got.rt
        /\ (c.CustomAuth = prev.custom) <=> (got.rt = prev.got.rt)

C5_Witness ==
    /\ TwiceSuccessful
    /\ got.rt \in Transports
    /\ prev.got.rt \in Transports
    /\ got.rt # prev.got.rt
    /\ c.CustomAuth = got.rt

\* the steps of one application, in the order of the closure's statements
Order ==
    <<"nilcheck", "provider.IsAuthenticated", "provider.GetAuthFlow",
      "WithCustomAuth">>

\* C6: every error an application returns is an AuthenticationError; the
\* nil-provider, not-authenticated and initialization-failure errors carry
\* three pairwise distinct messages; an application that reached the install
\* step returns no error.
C6_OnlyAuthenticationErrors ==
    /\ Cardinality({MsgNilProvider, MsgNotAuthenticated, MsgInitFailed}) = 3
    /\ (Returned /\ ret # NilErr) =>
        /\ ret.kind = "AuthenticationError"
        /\ Len(steps) \in 1..3
        /\ ret.msg = <<MsgNilProvider, MsgNotAuthenticated, MsgInitFailed>>[Len(steps)]
    /\ (Returned /\ Called("WithCustomAuth")) => ret = NilErr

\* a not-authenticated failure right after an initialization failure
C6_Witness ==
    /\ Returned
    /\ ret.kind = "AuthenticationError"
    /\ ret.msg = MsgNotAuthenticated
    /\ prev.ret.kind = "AuthenticationError"
    /\ prev.ret.msg = MsgInitFailed

\* C7: the steps of an application are a prefix of nil-check,
\* IsAuthenticated(), GetAuthFlow(), install (so each is made at most once
\* and in that order), a failing step is the last step made, and a
\* successful application made all four.
C7_SinglePass ==
    opt.variant = "iface" =>
        /\ Len(steps) <= Len(Order)
        /\ steps = SubSeq(Order, 1, Len(steps))
        /\ (Applying /\ IsNilInterface(opt.provider)) => steps = SubSeq(Order, 1, 1)
        /\ isAuth = "false" => steps = SubSeq(Order, 1, 2)
        /\ (got # NoResult /\ got.err # NilErr) => steps = SubSeq(Order, 1, 3)
        /\ (pc = "returned" /\ ret # NilErr) => ~Called("WithCustomAuth")
        /\ (pc = "returned" /\ ret = NilErr) => steps = Order

\* GetAuthFlow() failed and the application ended there
C7_Witness ==
    /\ Returned
    /\ got # NoResult /\ got.err # NilErr
    /\ steps = SubSeq(Order, 1, 3)
    /\ ret.kind = "AuthenticationError"

\* C8: an application writes c.CustomAuth at most once; the field changes
\* only in the install step; it does not change while no application is
\* running, in particular after an application has returned.
C8_WrittenOnceByInstall ==
    /\ [](writes <= 1)
    /\ [][(c' # c) => (pc = "install" /\ pc' = "returned" /\ writes' = writes + 1)]_vars
    /\ [][(pc \in {"ready", "returned", "panicked"}) => (c' = c)]_vars

\* an application wrote a transport different from the one held before
C8_Witness ==
    /\ Returned
    /\ writes = 1
    /\ prev.variant = "iface"
    /\ c.CustomAuth # prev.custom
    /\ c.CustomAuth \in Transports

\* C9: after an application that returned no error, c.CustomAuth is set.
C9_SuccessMeansTransportSet ==
    (Returned /\ ret = NilErr) => c.CustomAuth # NilRT

\* C10: the package never calls a function of the CLI package itself; the
\* CLI is reached only through the provider's two methods.
C10_NoDirectCLICall ==
    /\ cliCalls = {}
    /\ ~Called("cliAuth.IsProviderAuthenticated")
    /\ ~Called("cliAuth.ProviderAuthFlow")

Explicit == config.ServiceAccountToken # "" \/ config.ServiceAccountKeyPath # ""

\* C11: the consumer's setup chooses the authentication source by strict
\* priority (token, then key path, then CLI auth only when cli_auth is on,
\* else the default); WithCLIProviderAuth is not reached when a token or a
\* key path is set; when CLI auth is the choice and the adapter is not
\* authenticated the setup fails and no client is ever created.
C11_StrictPriority ==
    /\ [][(source = "unset" /\ source' # "unset") =>
            /\ config.ServiceAccountToken # "" => source' = "token"
            /\ (config.ServiceAccountToken = "" /\ config.ServiceAccountKeyPath # "")
                  => source' = "key"
            /\ (~Explicit /\ config.CLIAuth /\ cliAuthenticated) => source' = "cli"
            /\ (~Explicit /\ config.CLIAuth /\ ~cliAuthenticated) => source' = "error"
            /\ (~Explicit /\ ~config.CLIAuth) => source' = "default"]_vars
    /\ [](source \in {"cli", "error"} => (~Explicit /\ config.CLIAuth))
    /\ []((Explicit \/ ~config.CLIAuth) => (opt.variant # "iface" /\ steps = <<>>))
    /\ [](source = "error" => (client = "none" /\ opt = NoOption /\ steps = <<>>))
    /\ []((source = "cli" /\ client = "created") => (ret = NilErr /\ isAuth = "true"))

\* an explicit token is used although cli_auth is on and nobody is logged in
C11_Witness ==
    /\ config.ServiceAccountToken # ""
    /\ config.CLIAuth
    /\ ~cliAuthenticated
    /\ source = "token"
    /\ client = "created"

\* C12: when an application has returned an error, the configuration is
\* as it was before the application: its transport is the one held after
\* the previous application (or the initial one) and nothing was written.
C12_ErrorLeavesConfiguration ==
    (Returned /\ ret # NilErr) =>
        /\ c.CustomAuth = prev.custom
        /\ writes = 0

\* GetAuthFlow() failed while handing out a transport other than the one held
C12_Witness ==
    /\ Returned
    /\ ret # NilErr
    /\ prev.custom \in Transports
    /\ got.rt \in Transports
    /\ got.rt # prev.custom
    /\ c.CustomAuth = prev.custom

\* "<msg>: <text>" written out word by word: the last word of msg takes the
\* colon, the words of text follow after the space
MsgColonText(msg, text) ==
    SubSeq(msg, 1, Len(msg) - 1) \o <<msg[Len(msg)] \o ":">> \o text

\* C13: Error() of a returned AuthenticationError is the message alone when
\* there is no cause and "<message>: <cause text>" when there is one; for
\* the same message the text with any cause differs from the text without.
C13_ErrorText ==
    (pc = "returned" /\ ret.kind = "AuthenticationError") =>
        /\ Unwrap(ret) = NilErr => ErrorText(ret) = ret.msg
        /\ Unwrap(ret) # NilErr =>
              ErrorText(ret) = MsgColonText(ret.msg, Unwrap(ret).text)
        /\ \A e \in ExtErrors :
              ErrorText(AuthenticationError(ret.msg, e))
                  # ErrorText(AuthenticationError(ret.msg, NilErr))

\* the cause has the empty text, so only ": " tells the two forms apart
C13_Witness ==
    /\ Returned
    /\ ret.kind = "AuthenticationError"
    /\ Unwrap(ret) # NilErr
    /\ Unwrap(ret).text = <<"">>
    /\ ErrorText(ret) =
          <<"failed", "to", "initialize", "CLI", "provider", "authentication:", "">>

\* C14: a returned AuthenticationError has a cause exactly when it is the
\* initialization-failure error; then Unwrap() is the error GetAuthFlow()
\* returned; for the nil-provider and not-authenticated errors it is nil.
C14_CauseOnlyOnInitFailure ==
    (Returned /\ ret.kind = "AuthenticationError") =>
        /\ (Unwrap(ret) # NilErr) <=> (ret.msg = MsgInitFailed)
        /\ ret.msg = MsgInitFailed => (got # NoResult /\ Unwrap(ret) = got.err)
        /\ ret.msg \in {MsgNilProvider, MsgNotAuthenticated} =>
              (Unwrap(ret) = NilErr /\ got = NoResult)

\* a nil-provider error without cause right after an initialization failure
\* that had one
C14_Witness ==
    /\ Returned
    /\ ret.kind = "AuthenticationError"
    /\ ret.msg = MsgNilProvider
    /\ Unwrap(ret) = NilErr
    /\ prev.ret.kind = "AuthenticationError"
    /\ prev.ret.msg = MsgInitFailed
    /\ Unwrap(prev.ret) \in ExtErrors

\* C15: building the option changes nothing but the closure the caller
\* holds (no provider call, no result, no change of the configuration);
\* every application starts again at the nil check, and the answer it acts
\* on is the one the provider gives when the application asks.
C15_LazyOption ==
    /\ [][(opt' # opt /\ opt'.variant = "iface") =>
            UNCHANGED <<pc, c, authFlow, ret, steps, isAuth, got, writes,
                        cliCalls>>]_vars
    /\ [][(opt.variant = "iface" /\ pc = "ready" /\ pc' # "ready") =>
            (steps' = <<"nilcheck">> /\ isAuth = "unasked" /\ got = NoResult
               /\ isAuth' = "unasked" /\ got' = NoResult)]_vars
    /\ [][(opt.variant = "iface" /\ pc = "isauth" /\ pc' \in {"getflow", "returned"}) =>
            /\ isAuth' = (IF cliAuthenticated THEN "true" ELSE "false")
            /\ (pc' = "getflow") <=> cliAuthenticated]_vars
    /\ []((opt.variant = "iface" /\ pc = "ready") =>
            (steps = <<>> /\ isAuth = "unasked" /\ got = NoResult /\ ret = NoRet))

\* the option failed for want of a login and, applied again with the same
\* provider after the login, succeeds
C15_Witness ==
    /\ Returned
    /\ ret = NilErr
    /\ steps = Order
    /\ prev.variant = "iface"
    /\ prev.provider = opt.provider
    /\ prev.ret = AuthenticationError(MsgNotAuthenticated, NilErr)

\* the application that just returned and the one before it were made one
\* with the zero-argument option and one with the interface option over the
\* delegating adapter, and the CLI gave both the same answers
BothVariantsSameAnswers ==
    /\ pc = "returned"
    /\ \/ opt.variant = "cli" /\ prev.variant = "iface" /\ prev.provider = Adapter
       \/ opt.variant = "iface" /\ opt.provider = Adapter /\ prev.variant = "cli"
    /\ isAuth = prev.isAuth
    /\ isAuth = "true" => got = prev.got

\* C16: on the same CLI answers the zero-argument option and the interface
\* option over the delegating adapter agree on success or failure, on the
\* wrapped cause, on whether the transport is asked for, and on the
\* transport the configuration holds afterwards.
C16_VariantsAgree ==
    BothVariantsSameAnswers =>
        /\ (ret = NilErr) <=> (prev.ret = NilErr)
        /\ ret # NilErr =>
              /\ ret.kind = "AuthenticationError"
              /\ prev.ret.kind = "AuthenticationError"
              /\ Unwrap(ret) = Unwrap(prev.ret)
        /\ (got = NoResult) <=> (prev.got = NoResult)
        /\ (got = NoResult) <=> (isAuth = "false")
        /\ c.CustomAuth = prev.custom
        /\ ret = NilErr => c.CustomAuth = got.rt

\* both variants refused for want of a login, each with its own message
C16_Witness ==
    /\ BothVariantsSameAnswers
    /\ opt.variant = "cli"
    /\ isAuth = "false"
    /\ ret = AuthenticationError(MsgNotAuthenticatedCLI, NilErr)
    /\ prev.ret = AuthenticationError(MsgNotAuthenticated, NilErr)
    /\ got = NoResult

====
